---- MODULE Spec2Model ----
(***************************************************************************)
(* Model of the cut optimizer's packing engine, packPieces (maximal        *)
(* rectangles with rotation and kerf, 4 sort orders x 3 heuristics, and    *)
(* post-packing consolidation).  All lengths are integers.                 *)
(***************************************************************************)
EXTENDS Integers, Sequences, FiniteSets, TLC

(* ---- bounds of the explored inputs ---- *)
MaxPieces == 3
MaxDim == 3
MaxKerf == 1
MaxSheetCap == 2
MaxScenarioPieces == 5
MaxRebuildPieces == 4
MaxMergePieces == 5
MaxCapPieces == 8

VARIABLES pieces, sheetW, sheetH, kerf, maxSheets,
          pc, sortIdx, heurIdx, sorted, k, sheets, unplaced,
          bestResult, bestIdx, scores, improved, moved, out

vars == <<pieces, sheetW, sheetH, kerf, maxSheets,
          pc, sortIdx, heurIdx, sorted, k, sheets, unplaced,
          bestResult, bestIdx, scores, improved, moved, out>>

inputs == <<pieces, sheetW, sheetH, kerf, maxSheets>>

Max(a, b) == IF a >= b THEN a ELSE b
Min(a, b) == IF a <= b THEN a ELSE b

(* F(e), with e evaluated once and held as a value: a local const *)
Let(e, F(_)) == CHOOSE r \in {F(v) : v \in {e}} : TRUE

(* ---- sort strategies and heuristics ---- *)
NumSorts == 4
heuristics == <<"bssf", "blsf", "baf">>

sortStrategies(s, a, b) ==
  CASE s = 1 -> LET d == b.width * b.height - a.width * a.height
                IN IF d # 0 THEN d
                   ELSE Max(b.width, b.height) - Max(a.width, a.height)
    [] s = 2 -> LET d == (b.width + b.height) - (a.width + a.height)
                IN IF d # 0 THEN d ELSE b.width * b.height - a.width * a.height
    [] s = 3 -> LET d == Max(b.width, b.height) - Max(a.width, a.height)
                IN IF d # 0 THEN d ELSE b.width * b.height - a.width * a.height
    [] OTHER -> LET d == Max(b.width, b.height) - Max(a.width, a.height)
                IN IF d # 0 THEN d
                   ELSE Min(b.width, b.height) - Min(a.width, a.height)

(* Array.prototype.sort is stable: an element goes after every element     *)
(* already placed that does not compare greater than it.                   *)
RECURSIVE sortBy(_, _)
sortBy(s, seq) ==
  IF Len(seq) = 0 THEN <<>>
  ELSE Let(sortBy(s, SubSeq(seq, 1, Len(seq) - 1)),
           LAMBDA pre :
             Let(Cardinality({i \in 1..Len(pre) :
                                sortStrategies(s, pre[i], seq[Len(seq)]) <= 0}),
                 LAMBDA n :
                   SubSeq(pre, 1, n) \o <<seq[Len(seq)]>> \o SubSeq(pre, n + 1, Len(pre))))

(* ---- core helpers ---- *)
newSheet ==
  [freeRects |-> <<[x |-> 0, y |-> 0, w |-> sheetW, h |-> sheetH]>>,
   pieces |-> <<>>,
   usedArea |-> 0]

(* the containment test with its sides exchanged: b inside a *)
isContained_swapped(a, b) ==
  /\ b.x >= a.x
  /\ b.y >= a.y
  /\ b.x + b.w <= a.x + a.w
  /\ b.y + b.h <= a.y + a.h

isContained(a, b) ==
  /\ a.x >= b.x
  /\ a.y >= b.y
  /\ a.x + a.w <= b.x + b.w
  /\ a.y + a.h <= b.y + b.h

RECURSIVE pruneInner(_, _, _, _)
pruneInner(rects, keep, i, j) ==
  IF j > Len(rects) THEN keep
  ELSE IF ~keep[j] THEN pruneInner(rects, keep, i, j + 1)
  ELSE IF isContained(rects[i], rects[j]) THEN [keep EXCEPT ![i] = FALSE]
  ELSE IF isContained(rects[j], rects[i])
       THEN Let([keep EXCEPT ![j] = FALSE],
                LAMBDA kp : pruneInner(rects, kp, i, j + 1))
  ELSE pruneInner(rects, keep, i, j + 1)

RECURSIVE pruneOuter(_, _, _)
pruneOuter(rects, keep, i) ==
  IF i > Len(rects) THEN keep
  ELSE IF ~keep[i] THEN pruneOuter(rects, keep, i + 1)
  ELSE Let(pruneInner(rects, keep, i, i + 1),
           LAMBDA kp : pruneOuter(rects, kp, i + 1))

RECURSIVE filterKeep(_, _, _)
filterKeep(rects, keep, i) ==
  IF i > Len(rects) THEN <<>>
  ELSE (IF keep[i] THEN <<rects[i]>> ELSE <<>>) \o filterKeep(rects, keep, i + 1)

pruneFreeRects(rects) ==
  Let(pruneOuter(rects, [i \in 1..Len(rects) |-> TRUE], 1),
      LAMBDA keep : filterKeep(rects, keep, 1))

(* a free rectangle that meets the consumed rectangle is used up whole *)
splitFree_wholeRect(r, x, y, px2, py2) ==
  IF x >= r.x + r.w \/ px2 <= r.x \/ y >= r.y + r.h \/ py2 <= r.y
  THEN <<r>>
  ELSE <<>>

(* the right remainder begun at the piece's left edge, not past its kerf *)
splitFree_rightFromX(r, x, y, px2, py2) ==
  IF x >= r.x + r.w \/ px2 <= r.x \/ y >= r.y + r.h \/ py2 <= r.y
  THEN <<r>>
  ELSE (IF x > r.x THEN <<[x |-> r.x, y |-> r.y, w |-> x - r.x, h |-> r.h]>> ELSE <<>>)
    \o (IF px2 < r.x + r.w
        THEN <<[x |-> x, y |-> r.y, w |-> r.x + r.w - x, h |-> r.h]>> ELSE <<>>)
    \o (IF y > r.y THEN <<[x |-> r.x, y |-> r.y, w |-> r.w, h |-> y - r.y]>> ELSE <<>>)
    \o (IF py2 < r.y + r.h
        THEN <<[x |-> r.x, y |-> py2, w |-> r.w, h |-> r.y + r.h - py2]>> ELSE <<>>)

(* the remainders of one free rectangle r around the consumed rectangle *)
splitFree(r, x, y, px2, py2) ==
  IF x >= r.x + r.w \/ px2 <= r.x \/ y >= r.y + r.h \/ py2 <= r.y
  THEN <<r>>
  ELSE (IF x > r.x THEN <<[x |-> r.x, y |-> r.y, w |-> x - r.x, h |-> r.h]>> ELSE <<>>)
    \o (IF px2 < r.x + r.w
        THEN <<[x |-> px2, y |-> r.y, w |-> r.x + r.w - px2, h |-> r.h]>> ELSE <<>>)
    \o (IF y > r.y THEN <<[x |-> r.x, y |-> r.y, w |-> r.w, h |-> y - r.y]>> ELSE <<>>)
    \o (IF py2 < r.y + r.h
        THEN <<[x |-> r.x, y |-> py2, w |-> r.w, h |-> r.y + r.h - py2]>> ELSE <<>>)

RECURSIVE splitAll(_, _, _, _, _, _)
splitAll(rects, i, x, y, px2, py2) ==
  IF i > Len(rects) THEN <<>>
  ELSE splitFree(rects[i], x, y, px2, py2) \o splitAll(rects, i + 1, x, y, px2, py2)

(* r.w > 0.5 && r.h > 0.5, on integers *)
notDegenerate(r) == 2 * r.w > 1 /\ 2 * r.h > 1

placeRect(sheet, x, y, w, h) ==
  LET pw == w + kerf
      ph == h + kerf
      px2 == Min(x + pw, sheetW)
      py2 == Min(y + ph, sheetH)
  IN Let(SelectSeq(splitAll(sheet.freeRects, 1, x, y, px2, py2), notDegenerate),
         LAMBDA newFree : [sheet EXCEPT !.freeRects = pruneFreeRects(newFree)])

scoreFit(r, pw, ph, heuristic) ==
  LET leftoverW == r.w - pw
      leftoverH == r.h - ph
      positionScore == r.y * sheetW + r.x
  IN CASE heuristic = "bssf" ->
            [primary |-> Min(leftoverW, leftoverH),
             secondary |-> Max(leftoverW, leftoverH),
             positionScore |-> positionScore]
       [] heuristic = "blsf" ->
            [primary |-> Max(leftoverW, leftoverH),
             secondary |-> Min(leftoverW, leftoverH),
             positionScore |-> positionScore]
       [] OTHER ->
            [primary |-> leftoverW * leftoverH + leftoverW + leftoverH,
             secondary |-> Min(leftoverW, leftoverH),
             positionScore |-> positionScore]

(* the scores compared on the primary key alone *)
isBetterScore_primaryOnly(a, b) == a.primary < b.primary

isBetterScore(a, b) ==
  IF a.primary # b.primary THEN a.primary < b.primary
  ELSE IF a.secondary # b.secondary THEN a.secondary < b.secondary
  ELSE a.positionScore < b.positionScore

(* the fit test with the kerf allowed to hang over the free rectangle *)
fitsRect_overhang(pw, ph, r) == pw <= r.w + kerf /\ ph <= r.h + kerf

(* the fit test with the kerf added to the piece *)
fitsRect_kerfed(pw, ph, r) == pw + kerf <= r.w /\ ph + kerf <= r.h

(* the fit test of findBestFit: the piece against the free rectangle *)
fitsRect(pw, ph, r) == pw <= r.w /\ ph <= r.h

(* the rotated flag inverted *)
isRotated_inverted(bestW, pw) == bestW = pw

(* the rotated flag of the returned fit *)
isRotated(bestW, pw) == bestW # pw

NoFit ==
  [found |-> FALSE, rect |-> [x |-> 0, y |-> 0, w |-> 0, h |-> 0], w |-> 0, h |-> 0,
   score |-> [primary |-> 0, secondary |-> 0, positionScore |-> 0]]

(* one orientation w x h in free rectangle r, against the best so far *)
candidate(r, w, h, heuristic, best) ==
  Let(scoreFit(r, w, h, heuristic),
      LAMBDA score :
        IF ~best.found \/ isBetterScore(score, best.score)
        THEN [found |-> TRUE, rect |-> r, w |-> w, h |-> h, score |-> score]
        ELSE best)

RECURSIVE findBestLoop(_, _, _, _, _, _)
findBestLoop(rects, i, pw, ph, heuristic, best) ==
  IF i > Len(rects) THEN best
  ELSE Let(IF fitsRect(pw, ph, rects[i])
           THEN candidate(rects[i], pw, ph, heuristic, best)
           ELSE best,
           LAMBDA normal :
             Let(IF fitsRect(ph, pw, rects[i]) /\ pw # ph
                 THEN candidate(rects[i], ph, pw, heuristic, normal)
                 ELSE normal,
                 LAMBDA rotated :
                   findBestLoop(rects, i + 1, pw, ph, heuristic, rotated)))

findBestFit(sheet, pw, ph, heuristic) ==
  Let(findBestLoop(sheet.freeRects, 1, pw, ph, heuristic, NoFit),
      LAMBDA b :
        [found |-> b.found, rect |-> b.rect, w |-> b.w, h |-> b.h,
         rotated |-> isRotated(b.w, pw), score |-> b.score])

(* the area with the kerf margin counted in *)
placedArea_kerfed(fit) == (fit.w + kerf) * (fit.h + kerf)

(* the area tryPlace adds to usedArea *)
placedArea(fit) == fit.w * fit.h

(* tryPlace: the return value is .ok, the mutated sheet is .sheet *)
tryPlace(piece, sheet, heuristic) ==
  Let(findBestFit(sheet, piece.width, piece.height, heuristic),
      LAMBDA fit :
        IF ~fit.found THEN [ok |-> FALSE, sheet |-> sheet]
        ELSE [ok |-> TRUE,
              sheet |->
                placeRect([sheet EXCEPT
                             !.pieces = Append(@, [x |-> fit.rect.x, y |-> fit.rect.y,
                                                   w |-> fit.w, h |-> fit.h,
                                                   rotated |-> fit.rotated,
                                                   id |-> piece.id,
                                                   origW |-> piece.width,
                                                   origH |-> piece.height]),
                             !.usedArea = @ + placedArea(fit)],
                          fit.rect.x, fit.rect.y, fit.w, fit.h)])

(* the raw size test without the rotated orientation *)
fitsAtAll_unrotated(piece) == piece.width <= sheetW /\ piece.height <= sheetH

(* ---- one packing strategy: runStrategy ---- *)
fitsAtAll(piece) ==
  \/ (piece.width <= sheetW /\ piece.height <= sheetH)
  \/ (piece.height <= sheetW /\ piece.width <= sheetH)

(* the cap test off by one *)
capReached_offByOne(n) == n > maxSheets

(* the sheet cap test made before a new sheet is opened *)
capReached(n) == n >= maxSheets

unplacedEntry(piece, reason) ==
  [id |-> piece.id, width |-> piece.width, height |-> piece.height, reason |-> reason]

(* the scan stopped at the first open sheet that offers a fit *)
bestSheetLoop_firstFit(shs, i, piece, heuristic, bestSheetIdx, bestFit) ==
  IF \E j \in i..Len(shs) : findBestFit(shs[j], piece.width, piece.height, heuristic).found
  THEN CHOOSE j \in i..Len(shs) :
         /\ findBestFit(shs[j], piece.width, piece.height, heuristic).found
         /\ \A m \in i..(j - 1) :
              ~findBestFit(shs[m], piece.width, piece.height, heuristic).found
  ELSE bestSheetIdx

(* the scan of the open sheets for the best-scoring fit; 0 when none fits *)
RECURSIVE bestSheetLoop(_, _, _, _, _, _)
bestSheetLoop(shs, i, piece, heuristic, bestSheetIdx, bestFit) ==
  IF i > Len(shs) THEN bestSheetIdx
  ELSE Let(findBestFit(shs[i], piece.width, piece.height, heuristic),
           LAMBDA fit :
             IF fit.found /\ (~bestFit.found \/ isBetterScore(fit.score, bestFit.score))
             THEN bestSheetLoop(shs, i + 1, piece, heuristic, i, fit)
             ELSE bestSheetLoop(shs, i + 1, piece, heuristic, bestSheetIdx, bestFit))

(* ---- comparison of results ---- *)
RECURSIVE sumUsed(_)
sumUsed(shs) == IF Len(shs) = 0 THEN 0 ELSE shs[1].usedArea + sumUsed(Tail(shs))

(* waste is the ratio wasteNum / wasteDen (0 / 1 when there is no sheet) *)
resultScore(r) ==
  LET totalArea == sheetW * sheetH
      totalUsed == sumUsed(r.sheets)
      totalSheetArea == Len(r.sheets) * totalArea
  IN [sheetCount |-> Len(r.sheets),
      wasteNum |-> IF totalSheetArea > 0 THEN totalSheetArea - totalUsed ELSE 0,
      wasteDen |-> IF totalSheetArea > 0 THEN totalSheetArea ELSE 1,
      unplacedCount |-> Len(r.unplaced)]

(* a.waste < b.waste; equal sheet counts give equal denominators *)
wasteBelow(sa, sb) ==
  IF sa.wasteDen = sb.wasteDen THEN sa.wasteNum < sb.wasteNum
  ELSE sa.wasteNum * sb.wasteDen < sb.wasteNum * sa.wasteDen

(* the waste compared with <=, so that a later attempt wins a full tie *)
scoreIsBetter_tieTakesLater(sa, sb) ==
  IF sa.unplacedCount # sb.unplacedCount THEN sa.unplacedCount < sb.unplacedCount
  ELSE IF sa.sheetCount # sb.sheetCount THEN sa.sheetCount < sb.sheetCount
  ELSE ~wasteBelow(sb, sa)

scoreIsBetter(sa, sb) ==
  IF sa.unplacedCount # sb.unplacedCount THEN sa.unplacedCount < sb.unplacedCount
  ELSE IF sa.sheetCount # sb.sheetCount THEN sa.sheetCount < sb.sheetCount
  ELSE wasteBelow(sa, sb)

isBetterResult(a, b) == scoreIsBetter(resultScore(a), resultScore(b))

(* ---- consolidation ---- *)
(* result.sheets.sort((a, b) => b.usedArea - a.usedArea), stable *)
RECURSIVE sortSheets(_)
sortSheets(shs) ==
  IF Len(shs) = 0 THEN <<>>
  ELSE Let(sortSheets(SubSeq(shs, 1, Len(shs) - 1)),
           LAMBDA pre :
             Let(Cardinality({i \in 1..Len(pre) :
                                shs[Len(shs)].usedArea - pre[i].usedArea <= 0}),
                 LAMBDA n :
                   SubSeq(pre, 1, n) \o <<shs[Len(shs)]>> \o SubSeq(pre, n + 1, Len(pre))))

fakePiece(p) == [id |-> p.id, width |-> p.origW, height |-> p.origH]

(* the scan of the earlier sheets begun one sheet too far *)
firstFitSheet_skipsFirst(shs, si, piece) ==
  IF \E j \in (si + 1)..(Len(shs) - 1) :
       findBestFit(shs[j], piece.width, piece.height, "bssf").found
  THEN CHOOSE j \in (si + 1)..(Len(shs) - 1) :
         /\ findBestFit(shs[j], piece.width, piece.height, "bssf").found
         /\ \A m \in (si + 1)..(j - 1) :
              ~findBestFit(shs[m], piece.width, piece.height, "bssf").found
  ELSE 0

(* the first earlier sheet that offers a fit; 0 when none does *)
RECURSIVE firstFitSheet(_, _, _)
firstFitSheet(shs, si, piece) ==
  IF si > Len(shs) - 1 THEN 0
  ELSE IF findBestFit(shs[si], piece.width, piece.height, "bssf").found THEN si
  ELSE firstFitSheet(shs, si + 1, piece)

RECURSIVE moveLoop(_, _, _, _)
moveLoop(shs, piecesToMove, pi, movedIndices) ==
  IF pi > Len(piecesToMove) THEN [sheets |-> shs, movedIndices |-> movedIndices]
  ELSE Let(firstFitSheet(shs, 1, fakePiece(piecesToMove[pi])),
           LAMBDA si :
             IF si = 0 THEN moveLoop(shs, piecesToMove, pi + 1, movedIndices)
             ELSE Let([shs EXCEPT ![si] =
                         tryPlace(fakePiece(piecesToMove[pi]), @, "bssf").sheet],
                      LAMBDA placed :
                        Let(movedIndices \cup {pi},
                            LAMBDA added :
                              moveLoop(placed, piecesToMove, pi + 1, added))))

RECURSIVE filterRemaining(_, _, _)
filterRemaining(piecesToMove, movedIndices, i) ==
  IF i > Len(piecesToMove) THEN <<>>
  ELSE (IF i \in movedIndices THEN <<>> ELSE <<piecesToMove[i]>>)
       \o filterRemaining(piecesToMove, movedIndices, i + 1)

RECURSIVE rebuildLoop(_, _, _)
rebuildLoop(rebuilt, remaining, i) ==
  IF i > Len(remaining) THEN rebuilt
  ELSE Let(tryPlace(fakePiece(remaining[i]), rebuilt, "bssf").sheet,
           LAMBDA placed : rebuildLoop(placed, remaining, i + 1))

(* another pass is asked for whatever the pass moved *)
passImproved_always(n) == TRUE

(* whether a pass that moved n pieces asks for another pass *)
passImproved(n) == n > 0

(* the last sheet dropped whether or not all of its pieces moved *)
lastSheetAfter_alwaysDrops(shs, piecesToMove, movedIndices) ==
  SubSeq(shs, 1, Len(shs) - 1)

(* the last sheet after a pass that moved n of its pieces, n > 0 *)
lastSheetAfter(shs, piecesToMove, movedIndices) ==
  IF Cardinality(movedIndices) = Len(piecesToMove)
  THEN SubSeq(shs, 1, Len(shs) - 1)
  ELSE Let(filterRemaining(piecesToMove, movedIndices, 1),
           LAMBDA remaining :
             [shs EXCEPT ![Len(shs)] = rebuildLoop(newSheet, remaining, 1)])

(* one iteration of the while loop of consolidateSheets, past the break *)
consolidatePass(shs) ==
  Let(sortSheets(shs),
      LAMBDA srt :
        Let(moveLoop(srt, srt[Len(srt)].pieces, 1, {}),
            LAMBDA mv :
              [sheets |-> IF Cardinality(mv.movedIndices) > 0
                          THEN lastSheetAfter(mv.sheets, srt[Len(srt)].pieces,
                                              mv.movedIndices)
                          ELSE mv.sheets,
               moved |-> Cardinality(mv.movedIndices)]))

(* ---- final output ---- *)
RECURSIVE largestFreeLoop(_, _, _)
largestFreeLoop(rects, i, largestFree) ==
  IF i > Len(rects) THEN largestFree
  ELSE LET r == rects[i]
           a == r.w * r.h
       IN IF a > largestFree.area
          THEN largestFreeLoop(rects, i + 1,
                 [w |-> r.w, h |-> r.h, area |-> a, x |-> r.x, y |-> r.y])
          ELSE largestFreeLoop(rects, i + 1, largestFree)

RECURSIVE sumRectArea(_)
sumRectArea(rects) ==
  IF Len(rects) = 0 THEN 0 ELSE rects[1].w * rects[1].h + sumRectArea(Tail(rects))

computeActualFreeArea(freeRects, sw, sh) == Min(sumRectArea(freeRects), sw * sh)

(* ((1 - usedArea / totalArea) * 100).toFixed(1), in tenths of a percent *)
wastePercent(usedArea) ==
  LET totalArea == sheetW * sheetH
      scaled == 1000 * (totalArea - usedArea)
  IN (scaled \div totalArea) + (IF 2 * (scaled % totalArea) >= totalArea THEN 1 ELSE 0)

resultSheet(s) ==
  [pieces |-> s.pieces,
   wastePercent |-> wastePercent(s.usedArea),
   usedArea |-> s.usedArea,
   freeRects |-> s.freeRects,
   largestFree |-> largestFreeLoop(s.freeRects, 1,
                     [w |-> 0, h |-> 0, area |-> 0, x |-> 0, y |-> 0]),
   totalFreeArea |-> computeActualFreeArea(s.freeRects, sheetW, sheetH)]

(* ---- suggestions: generateSuggestions ---- *)
(* a suggestion is its type tag and its sheet number; thresholds are in    *)
(* tenths of a percent                                                     *)
hasFillGap(sheet) ==
  \E i \in 1..Len(sheet.freeRects) :
    sheet.freeRects[i].w >= 200 /\ sheet.freeRects[i].h >= 200

(* the hint given for the last sheet as well *)
consolidateHint_lastToo(sheet, idx, n) == sheet.wastePercent > 300

(* idx < sheets.length - 1 && wasteNum > 30, idx counted from 1 *)
consolidateHint(sheet, idx, n) == idx < n /\ sheet.wastePercent > 300

sheetSuggestions(sheet, idx, n) ==
  IF sheet.largestFree.area > 0
  THEN (IF sheet.wastePercent > 150 /\ hasFillGap(sheet)
        THEN <<[type |-> "fill_gaps", sheet |-> idx]>> ELSE <<>>)
       \o (IF consolidateHint(sheet, idx, n)
           THEN <<[type |-> "consolidate", sheet |-> idx]>> ELSE <<>>)
  ELSE <<>>

RECURSIVE forEachSheet(_, _)
forEachSheet(shs, idx) ==
  IF idx > Len(shs) THEN <<>>
  ELSE sheetSuggestions(shs[idx], idx, Len(shs)) \o forEachSheet(shs, idx + 1)

generateSuggestions(shs, sw, sh, unpl) ==
  forEachSheet(shs, 1)
  \o (IF Len(shs) > 0 /\ shs[Len(shs)].wastePercent > 200
      THEN <<[type |-> "future_use", sheet |-> Len(shs)]>> ELSE <<>>)
  \o (IF Len(shs) > 1 /\ (sumUsed(shs) + sw * sh - 1) \div (sw * sh) < Len(shs)
      THEN <<[type |-> "efficiency", sheet |-> 0]>> ELSE <<>>)

NoResult == [sheets |-> <<>>, unplaced |-> <<>>]

(* ---- inputs ---- *)
PieceSeqs(n) ==
  {[i \in 1..n |-> [id |-> i, width |-> f[i][1], height |-> f[i][2]]] :
     f \in [1..n -> (1..MaxDim) \X (1..MaxDim)]}

shapeRank(p) == p.width * (MaxDim + 1) + p.height

(* piece lists in ascending or in descending order of shape, so that equal *)
(* and swapped shapes (the ties of the stable sorts) meet in both orders   *)
isOrdered(seq) ==
  \/ \A i \in 1..(Len(seq) - 1) : shapeRank(seq[i]) <= shapeRank(seq[i + 1])
  \/ \A i \in 1..(Len(seq) - 1) : shapeRank(seq[i]) >= shapeRank(seq[i + 1])

PieceLists == UNION {{seq \in PieceSeqs(n) : isOrdered(seq)} : n \in 0..MaxPieces}

ControlInit ==
  /\ pc = "entry"
  /\ sortIdx = 1
  /\ heurIdx = 1
  /\ sorted = <<>>
  /\ k = 1
  /\ sheets = <<>>
  /\ unplaced = <<>>
  /\ bestResult = NoResult
  /\ bestIdx = 0
  /\ scores = <<>>
  /\ improved = TRUE
  /\ moved = 0
  /\ out = [status |-> "pending", sheets |-> <<>>, unplaced |-> <<>>,
            suggestions |-> <<>>]

(* the inputs of the engine's contract: sizes > 0, kerf >= 0, maxSheets >= 1 *)
ValidInput == sheetW > 0 /\ sheetH > 0 /\ kerf >= 0 /\ maxSheets >= 1

Init ==
  /\ pieces \in PieceLists
  /\ sheetW = MaxDim
  /\ sheetH \in (MaxDim - 1)..MaxDim
  /\ kerf \in 0..MaxKerf
  /\ maxSheets \in 1..MaxSheetCap
  /\ ControlInit

(* inputs on a 5 x 5 sheet whose pieces leave gaps exactly as wide as a    *)
(* later piece                                                             *)
KerfShapes == {<<3, 3>>, <<1, 5>>, <<4, 1>>}

KerfPieceLists ==
  UNION {{[i \in 1..n |-> [id |-> i, width |-> f[i][1], height |-> f[i][2]]] :
            f \in [1..n -> KerfShapes]} : n \in 1..MaxPieces}

InitKerf ==
  /\ pieces \in KerfPieceLists
  /\ sheetW = 5
  /\ sheetH = 5
  /\ kerf \in 0..MaxKerf
  /\ maxSheets \in 1..MaxSheetCap
  /\ ControlInit

(* inputs inside and outside the contract, as a caller can pass them *)
InitBoundary ==
  /\ pieces \in UNION {PieceSeqs(n) : n \in 0..2}
  /\ sheetW \in {0, MaxDim}
  /\ sheetH \in {0, MaxDim}
  /\ kerf \in (-1)..MaxKerf
  /\ maxSheets \in (-1)..MaxSheetCap
  /\ ControlInit

(* the worked scenario of the engine and its neighbours: a 1000 x 1000     *)
(* sheet, no kerf, five sheets allowed, and pieces of 400 x 400, 300 x 300 *)
(* or 700 x 700 in any order                                               *)
ScenarioShapes == {<<400, 400>>, <<300, 300>>, <<700, 700>>}

ScenarioPieceLists ==
  UNION {{[i \in 1..n |-> [id |-> i, width |-> f[i][1], height |-> f[i][2]]] :
            f \in [1..n -> ScenarioShapes]} : n \in 1..MaxScenarioPieces}

InitScenario ==
  /\ pieces \in ScenarioPieceLists
  /\ sheetW = 1000
  /\ sheetH = 1000
  /\ kerf = 0
  /\ maxSheets = 5
  /\ ControlInit

(* a 5 x 3 sheet with pieces whose packing the consolidator later rebuilds *)
RebuildShapes == {<<3, 4>>, <<2, 3>>, <<1, 4>>, <<2, 1>>}

RebuildPieceLists ==
  UNION {{[i \in 1..n |-> [id |-> i, width |-> f[i][1], height |-> f[i][2]]] :
            f \in [1..n -> RebuildShapes]} : n \in 1..MaxRebuildPieces}

InitRebuild ==
  /\ pieces \in RebuildPieceLists
  /\ sheetW = 5
  /\ sheetH = 3
  /\ kerf \in 0..MaxKerf
  /\ maxSheets \in 1..MaxSheetCap
  /\ ControlInit

(* a 5 x 9 sheet with pieces that the strategy runs spread over two sheets *)
MergeShapes == {<<1, 7>>, <<3, 2>>, <<3, 1>>, <<5, 3>>}

MergePieceLists ==
  UNION {{[i \in 1..n |-> [id |-> i, width |-> f[i][1], height |-> f[i][2]]] :
            f \in [1..n -> MergeShapes]} : n \in 1..MaxMergePieces}

InitMerge ==
  /\ pieces \in MergePieceLists
  /\ sheetW = 5
  /\ sheetH = 9
  /\ kerf \in 0..MaxKerf
  /\ maxSheets = 2
  /\ ControlInit

(* a 10 x 5 sheet and the sub-lists of a list of long and wide pieces that *)
(* three sheets cannot all take                                           *)
CapShapes ==
  <<<<1, 10>>, <<6, 4>>, <<9, 3>>, <<3, 2>>, <<1, 9>>, <<1, 8>>, <<2, 7>>, <<5, 5>>>>

nthOf(S, i) == CHOOSE j \in S : Cardinality({m \in S : m <= j}) = i

CapPieceLists ==
  {[i \in 1..Cardinality(S) |->
      [id |-> i, width |-> CapShapes[nthOf(S, i)][1],
       height |-> CapShapes[nthOf(S, i)][2]]] :
     S \in {T \in SUBSET (1..Len(CapShapes)) :
              Cardinality(T) >= 1 /\ Cardinality(T) <= MaxCapPieces}}

InitCap ==
  /\ pieces \in CapPieceLists
  /\ sheetW = 10
  /\ sheetH = 5
  /\ kerf \in 0..MaxKerf
  /\ maxSheets \in 1..(MaxSheetCap + 1)
  /\ ControlInit

(* ---- actions ---- *)
(* entry of packPieces: the empty list returns at once *)
Enter ==
  /\ pc = "entry"
  /\ IF Len(pieces) = 0
     THEN /\ out' = [status |-> "returned", sheets |-> <<>>, unplaced |-> <<>>,
                     suggestions |-> <<>>]
          /\ pc' = "done"
          /\ UNCHANGED sorted
     ELSE /\ sorted' = sortBy(1, pieces)
          /\ pc' = "run"
          /\ UNCHANGED out
  /\ UNCHANGED <<inputs, sortIdx, heurIdx, k, sheets, unplaced,
                 bestResult, bestIdx, scores, improved, moved>>

(* one iteration of the for loop of runStrategy *)
RunStep ==
  /\ pc = "run"
  /\ k <= Len(sorted)
  /\ IF ~fitsAtAll(sorted[k])
     THEN /\ unplaced' = Append(unplaced, unplacedEntry(sorted[k], "Too large for sheet"))
          /\ UNCHANGED sheets
     ELSE \E bestSheetIdx \in
               {bestSheetLoop(sheets, 1, sorted[k], heuristics[heurIdx], 0, NoFit)} :
            IF bestSheetIdx > 0
            THEN /\ sheets' = [sheets EXCEPT ![bestSheetIdx] =
                                 tryPlace(sorted[k], @, heuristics[heurIdx]).sheet]
                 /\ UNCHANGED unplaced
            ELSE IF capReached(Len(sheets))
            THEN /\ unplaced' = Append(unplaced,
                                       unplacedEntry(sorted[k], "No sheets remaining"))
                 /\ UNCHANGED sheets
            ELSE \E t \in {tryPlace(sorted[k], newSheet, heuristics[heurIdx])} :
                   IF t.ok
                   THEN /\ sheets' = Append(sheets, t.sheet)
                        /\ UNCHANGED unplaced
                   ELSE /\ unplaced' = Append(unplaced,
                                              unplacedEntry(sorted[k], "Could not place"))
                        /\ UNCHANGED sheets
  /\ k' = k + 1
  /\ UNCHANGED <<inputs, pc, sortIdx, heurIdx, sorted, bestResult, bestIdx,
                 scores, improved, moved, out>>

(* the end of one runStrategy call: keep the result if it is better, then  *)
(* go on to the next heuristic / sort order, or leave the two loops        *)
SelectBest ==
  /\ pc = "run"
  /\ k > Len(sorted)
  /\ \E keep \in {bestIdx = 0
                    \/ isBetterResult([sheets |-> sheets, unplaced |-> unplaced],
                                      bestResult)} :
       /\ bestResult' = IF keep THEN [sheets |-> sheets, unplaced |-> unplaced]
                        ELSE bestResult
       /\ bestIdx' = IF keep THEN Len(scores) + 1 ELSE bestIdx
       /\ scores' = Append(scores,
                           resultScore([sheets |-> sheets, unplaced |-> unplaced]))
       /\ IF heurIdx < Len(heuristics)
          THEN /\ heurIdx' = heurIdx + 1
               /\ UNCHANGED <<sortIdx, sorted, pc, improved>>
          ELSE IF sortIdx < NumSorts
          THEN /\ sortIdx' = sortIdx + 1
               /\ heurIdx' = 1
               /\ sorted' = sortBy(sortIdx + 1, pieces)
               /\ UNCHANGED <<pc, improved>>
          ELSE /\ pc' = IF Len(IF keep THEN sheets ELSE bestResult.sheets) > 1
                        THEN "consolidate" ELSE "output"
               /\ improved' = TRUE
               /\ UNCHANGED <<sortIdx, heurIdx, sorted>>
  /\ k' = 1
  /\ sheets' = <<>>
  /\ unplaced' = <<>>
  /\ UNCHANGED <<inputs, moved, out>>

(* one iteration of the while loop of consolidateSheets *)
ConsolidatePass ==
  /\ pc = "consolidate"
  /\ improved
  /\ IF Len(bestResult.sheets) <= 1
     THEN /\ improved' = FALSE
          /\ UNCHANGED <<bestResult, moved>>
     ELSE \E pass \in {consolidatePass(bestResult.sheets)} :
            /\ bestResult' = [bestResult EXCEPT !.sheets = pass.sheets]
            /\ moved' = pass.moved
            /\ improved' = passImproved(pass.moved)
  /\ UNCHANGED <<inputs, pc, sortIdx, heurIdx, sorted, k, sheets, unplaced,
                 bestIdx, scores, out>>

(* the while loop ends and consolidateSheets returns *)
ConsolidateReturn ==
  /\ pc = "consolidate"
  /\ ~improved
  /\ pc' = "output"
  /\ UNCHANGED <<inputs, sortIdx, heurIdx, sorted, k, sheets, unplaced,
                 bestResult, bestIdx, scores, improved, moved, out>>

(* the final output of packPieces *)
Finalize ==
  /\ pc = "output"
  /\ \E resultSheets \in {[i \in 1..Len(bestResult.sheets) |->
                              resultSheet(bestResult.sheets[i])]} :
       out' = [status |-> "returned",
               sheets |-> resultSheets,
               unplaced |-> bestResult.unplaced,
               suggestions |-> generateSuggestions(resultSheets, sheetW, sheetH,
                                                   bestResult.unplaced)]
  /\ pc' = "done"
  /\ UNCHANGED <<inputs, sortIdx, heurIdx, sorted, k, sheets, unplaced,
                 bestResult, bestIdx, scores, improved, moved>>

Next ==
  \/ Enter
  \/ RunStep
  \/ SelectBest
  \/ ConsolidatePass
  \/ ConsolidateReturn
  \/ Finalize

Spec == Init /\ [][Next]_vars

SpecKerf == InitKerf /\ [][Next]_vars

SpecBoundary == InitBoundary /\ [][Next]_vars

SpecScenario == InitScenario /\ [][Next]_vars

SpecRebuild == InitRebuild /\ [][Next]_vars

SpecMerge == InitMerge /\ [][Next]_vars

SpecCap == InitCap /\ [][Next]_vars

(* packPieces is synchronous: a loop of consolidateSheets that can take a   *)
(* step takes it                                                           *)
FairSpec ==
  Init /\ [][Next]_vars /\ WF_vars(ConsolidatePass) /\ WF_vars(ConsolidateReturn)

TypeOK ==
  /\ pc \in {"entry", "run", "consolidate", "output", "done"}
  /\ sortIdx \in 1..NumSorts
  /\ heurIdx \in 1..Len(heuristics)
  /\ k \in 1..(Len(sorted) + 1)

(* ---- properties ---- *)
(* P holds of every sheet of the running strategy, of the best result so   *)
(* far (the one consolidation works on) and of the returned result         *)
EverySheet(P(_)) ==
  /\ \A i \in 1..Len(sheets) : P(sheets[i])
  /\ \A i \in 1..Len(bestResult.sheets) : P(bestResult.sheets[i])
  /\ \A i \in 1..Len(out.sheets) : P(out.sheets[i])

EveryPlaced(P(_)) ==
  LET OnSheet(s) == \A a \in 1..Len(s.pieces) : P(s.pieces[a])
  IN EverySheet(OnSheet)

EveryUnplaced(P(_)) ==
  /\ \A i \in 1..Len(unplaced) : P(unplaced[i])
  /\ \A i \in 1..Len(bestResult.unplaced) : P(bestResult.unplaced[i])
  /\ \A i \in 1..Len(out.unplaced) : P(out.unplaced[i])

Returned == pc = "done" /\ out.status = "returned"

SegmentsMeet(a1, a2, b1, b2) == a1 < b2 /\ b1 < a2

FootprintsMeet(p, q) ==
  /\ SegmentsMeet(p.x, p.x + p.w + kerf, q.x, q.x + q.w + kerf)
  /\ SegmentsMeet(p.y, p.y + p.h + kerf, q.y, q.y + q.h + kerf)

(* C1: in every returned result the kerf-inflated footprints               *)
(* [x, x+w+kerf) x [y, y+h+kerf) of two distinct pieces of one sheet do    *)
(* not intersect.                                                          *)
C1_FootprintsDisjoint ==
  Returned =>
    \A i \in 1..Len(out.sheets) :
      \A a, b \in 1..Len(out.sheets[i].pieces) :
        a # b => ~FootprintsMeet(out.sheets[i].pieces[a], out.sheets[i].pieces[b])

(* C2, as stated: in every returned result the footprint                   *)
(* [x, x+w+kerf] x [y, y+h+kerf] of every placed piece lies within         *)
(* [0, sheetW] x [0, sheetH].                                              *)
C2_FootprintInSheet ==
  Returned =>
    \A i \in 1..Len(out.sheets) :
      \A a \in 1..Len(out.sheets[i].pieces) :
        LET p == out.sheets[i].pieces[a]
        IN /\ p.x >= 0
           /\ p.y >= 0
           /\ p.x + p.w + kerf <= sheetW
           /\ p.y + p.h + kerf <= sheetH

(* C2, amended: in every returned result the body [x, x+w] x [y, y+h] of   *)
(* every placed piece lies within [0, sheetW] x [0, sheetH]; only the kerf *)
(* margin on the trailing edges may pass the sheet's edge, so that the     *)
(* footprint lies within [0, sheetW+kerf] x [0, sheetH+kerf].              *)
C2_BodyInSheet ==
  Returned =>
    \A i \in 1..Len(out.sheets) :
      \A a \in 1..Len(out.sheets[i].pieces) :
        LET p == out.sheets[i].pieces[a]
        IN /\ p.x >= 0
           /\ p.y >= 0
           /\ p.x + p.w <= sheetW
           /\ p.y + p.h <= sheetH
           /\ p.x + p.w + kerf <= sheetW + kerf
           /\ p.y + p.h + kerf <= sheetH + kerf

(* a returned piece whose body reaches the sheet's far edges, with kerf *)
C2_Witness ==
  /\ Returned
  /\ kerf > 0
  /\ \E i \in 1..Len(out.sheets) :
       \E a \in 1..Len(out.sheets[i].pieces) :
         LET p == out.sheets[i].pieces[a]
         IN p.x > 0 /\ p.x + p.w = sheetW /\ p.y + p.h + kerf > sheetH

(* C3: the number of open sheets never exceeds maxSheets, during every     *)
(* strategy run, after every consolidation pass and in the result.         *)
C3_SheetCap ==
  /\ Len(sheets) <= maxSheets
  /\ Len(bestResult.sheets) <= maxSheets
  /\ Len(out.sheets) <= maxSheets

(* the cap was reached and a piece was turned away for it *)
C3_Witness ==
  /\ Returned
  /\ Len(out.sheets) = maxSheets
  /\ maxSheets > 1
  /\ \E i \in 1..Len(out.unplaced) : out.unplaced[i].reason = "No sheets remaining"

RECURSIVE SumBodyArea(_)
SumBodyArea(ps) ==
  IF Len(ps) = 0 THEN 0 ELSE ps[1].w * ps[1].h + SumBodyArea(Tail(ps))

(* C4: on every sheet, at every step, usedArea is the sum of w*h over the  *)
(* pieces on the sheet and is at most sheetW*sheetH.                       *)
C4_UsedArea ==
  LET Exact(s) == s.usedArea = SumBodyArea(s.pieces) /\ s.usedArea <= sheetW * sheetH
  IN EverySheet(Exact)

(* a consolidation pass moved a piece onto a sheet and rebuilt the last one *)
C4_Witness ==
  /\ pc = "consolidate"
  /\ moved > 0
  /\ Len(bestResult.sheets) > 1
  /\ \E i \in 1..Len(bestResult.sheets) : Len(bestResult.sheets[i].pieces) > 1

(* C5: every placed piece has (w, h) equal to (origW, origH) or to         *)
(* (origH, origW), its original size being the input piece's; rotated is   *)
(* true exactly for the swapped pair, and never for a square piece.        *)
C5_Orientation ==
  LET Ok(p) ==
        /\ p.id \in 1..Len(pieces)
        /\ p.origW = pieces[p.id].width
        /\ p.origH = pieces[p.id].height
        /\ \/ (p.w = p.origW /\ p.h = p.origH)
           \/ (p.w = p.origH /\ p.h = p.origW)
        /\ p.rotated <=> (p.w = p.origH /\ p.h = p.origW /\ p.origW # p.origH)
  IN EveryPlaced(Ok)

(* consolidation moved a piece, and a rotated piece and a square piece are *)
(* placed                                                                  *)
C5_Witness ==
  /\ pc = "consolidate"
  /\ moved > 0
  /\ \E i, j \in 1..Len(bestResult.sheets) :
       /\ \E a \in 1..Len(bestResult.sheets[i].pieces) :
            bestResult.sheets[i].pieces[a].rotated
       /\ \E b \in 1..Len(bestResult.sheets[j].pieces) :
            bestResult.sheets[j].pieces[b].origW = bestResult.sheets[j].pieces[b].origH

FitsRaw(w, h) == (w <= sheetW /\ h <= sheetH) \/ (h <= sheetW /\ w <= sheetH)

(* C6: every unplaced entry carries one of the three reasons; an entry is  *)
(* "Too large for sheet" exactly when the piece fits the sheet in neither  *)
(* orientation; such a piece is never placed, and in the returned result   *)
(* it is reported as too large.                                            *)
C6_Reasons ==
  LET Tagged(u) ==
        /\ u.reason \in {"Too large for sheet", "No sheets remaining", "Could not place"}
        /\ (u.reason = "Too large for sheet") <=> ~FitsRaw(u.width, u.height)
      Fitting(p) == FitsRaw(p.origW, p.origH)
  IN /\ EveryUnplaced(Tagged)
     /\ EveryPlaced(Fitting)
     /\ Returned =>
          \A j \in 1..Len(pieces) :
            ~FitsRaw(pieces[j].width, pieces[j].height) =>
              \E i \in 1..Len(out.unplaced) :
                /\ out.unplaced[i].id = j
                /\ out.unplaced[i].reason = "Too large for sheet"

(* a result with a piece too large, a piece that fits only rotated, and a  *)
(* piece turned away for another reason                                    *)
C6_Witness ==
  /\ Returned
  /\ \E i \in 1..Len(out.unplaced) : out.unplaced[i].reason = "Too large for sheet"
  /\ \E i \in 1..Len(out.unplaced) : out.unplaced[i].reason = "No sheets remaining"
  /\ \E i \in 1..Len(out.sheets) :
       \E a \in 1..Len(out.sheets[i].pieces) :
         out.sheets[i].pieces[a].origH > sheetH

(* C7: no strategy run records an unplaced entry "Could not place".        *)
C7_NoCouldNotPlace ==
  LET Placeable(u) == u.reason # "Could not place"
  IN EveryUnplaced(Placeable)

(* a piece as large as the sheet went onto a fresh sheet, with kerf *)
C7_Witness ==
  /\ pc = "run"
  /\ kerf > 0
  /\ \E i \in 1..Len(sheets) :
       /\ sheets[i].pieces[1].w = sheetW
       /\ sheets[i].pieces[1].h = sheetH

(* C8: when the sheet width or height is not positive, the kerf negative   *)
(* or maxSheets below 1, packPieces ends with an error outcome and not     *)
(* with a packing.                                                         *)
C8_RejectsInvalid == (pc = "done" /\ ~ValidInput) => out.status = "rejected"

WasteLess(sa, sb) ==
  \/ sa.wasteDen = sb.wasteDen /\ sa.wasteNum < sb.wasteNum
  \/ sa.wasteDen # sb.wasteDen /\ sa.wasteNum * sb.wasteDen < sb.wasteNum * sa.wasteDen

Beats(sa, sb) ==
  \/ sa.unplacedCount < sb.unplacedCount
  \/ sa.unplacedCount = sb.unplacedCount /\ sa.sheetCount < sb.sheetCount
  \/ sa.unplacedCount = sb.unplacedCount /\ sa.sheetCount = sb.sheetCount
       /\ WasteLess(sa, sb)

IsPermutation(a, b) ==
  /\ Len(a) = Len(b)
  /\ \E f \in [1..Len(a) -> 1..Len(a)] :
       /\ \A i, j \in 1..Len(a) : i # j => f[i] # f[j]
       /\ \A i \in 1..Len(a) : a[i] = b[f[i]]

Selected == Len(scores) = NumSorts * Len(heuristics) /\ moved = 0 /\ improved
              /\ pc \in {"consolidate", "output"}

C10_ConsolidationEnds ==
  (pc = "consolidate") ~> (pc = "output" /\ (moved = 0 \/ Len(bestResult.sheets) <= 1))

(* a pass moved a piece off the last sheet, rebuilt it, and the loop goes on *)
C10_Witness ==
  /\ pc = "consolidate"
  /\ improved
  /\ moved > 0
  /\ Len(bestResult.sheets) > 1

(* the input of the scenario: one 400 x 400 and four 300 x 300 pieces on a *)
(* 1000 x 1000 sheet, kerf 0, at most 5 sheets                             *)
IsScenario ==
  /\ sheetW = 1000 /\ sheetH = 1000 /\ kerf = 0 /\ maxSheets = 5
  /\ Len(pieces) = 5
  /\ Cardinality({i \in 1..5 : pieces[i].width = 400 /\ pieces[i].height = 400}) = 1
  /\ Cardinality({i \in 1..5 : pieces[i].width = 300 /\ pieces[i].height = 300}) = 4

(* C12: for a 1000 x 1000 sheet, kerf 0, maxSheets 5 and one 400 x 400     *)
(* piece plus four 300 x 300 pieces, packPieces returns exactly one sheet  *)
(* that holds all 5 pieces, and an empty unplaced list.                    *)
C12_Scenario ==
  (Returned /\ IsScenario) =>
    /\ Len(out.sheets) = 1
    /\ Len(out.sheets[1].pieces) = 5
    /\ {out.sheets[1].pieces[a].id : a \in 1..Len(out.sheets[1].pieces)} = 1..5
    /\ out.unplaced = <<>>

(* the scenario was packed, the 400 x 400 piece given last *)
C12_Witness ==
  /\ Returned
  /\ IsScenario
  /\ pieces[5].width = 400
  /\ Len(out.sheets) = 1
  /\ Len(out.sheets[1].pieces) = 5

(* ---- the free rectangles of a sheet ---- *)
(* the rectangle piece p consumes: its body and the kerf, cut at the sheet *)
ConsumedMeets(p, r) ==
  /\ SegmentsMeet(p.x, Min(p.x + p.w + kerf, sheetW), r.x, r.x + r.w)
  /\ SegmentsMeet(p.y, Min(p.y + p.h + kerf, sheetH), r.y, r.y + r.h)

InSheet(r) ==
  /\ r.x >= 0 /\ r.y >= 0 /\ r.w > 0 /\ r.h > 0
  /\ r.x + r.w <= sheetW /\ r.y + r.h <= sheetH

IsEmpty(r, ps) == InSheet(r) /\ \A a \in 1..Len(ps) : ~ConsumedMeets(ps[a], r)

(* r cannot grow by one unit on any side and stay empty *)
IsMaximal(r, ps) ==
  /\ ~IsEmpty([r EXCEPT !.x = @ - 1, !.w = @ + 1], ps)
  /\ ~IsEmpty([r EXCEPT !.w = @ + 1], ps)
  /\ ~IsEmpty([r EXCEPT !.y = @ - 1, !.h = @ + 1], ps)
  /\ ~IsEmpty([r EXCEPT !.h = @ + 1], ps)

SheetRects ==
  {[x |-> x, y |-> y, w |-> w, h |-> h] :
     x \in 0..(sheetW - 1), y \in 0..(sheetH - 1), w \in 1..sheetW, h \in 1..sheetH}

MaximalEmptyRects(ps) == {r \in SheetRects : IsEmpty(r, ps) /\ IsMaximal(r, ps)}

(* C13: after every placement, on every sheet, the free-rectangle list is  *)
(* exactly the set of maximal empty rectangles of the sheet area that the  *)
(* consumed rectangles [x, min(x+w+kerf, sheetW)) x [y, min(y+h+kerf,      *)
(* sheetH)) leave: each one is listed, once, and nothing else is listed.   *)
C13_MaximalFreeRects ==
  LET Exact(s) ==
        /\ {s.freeRects[i] : i \in 1..Len(s.freeRects)} = MaximalEmptyRects(s.pieces)
        /\ Cardinality({s.freeRects[i] : i \in 1..Len(s.freeRects)}) = Len(s.freeRects)
  IN EverySheet(Exact)

(* a sheet with two pieces and two free rectangles that overlap *)
C13_Witness ==
  \E i \in 1..Len(sheets) :
       /\ Len(sheets[i].pieces) >= 2
       /\ \E a, b \in 1..Len(sheets[i].freeRects) :
            /\ a # b
            /\ SegmentsMeet(sheets[i].freeRects[a].x,
                            sheets[i].freeRects[a].x + sheets[i].freeRects[a].w,
                            sheets[i].freeRects[b].x,
                            sheets[i].freeRects[b].x + sheets[i].freeRects[b].w)
            /\ SegmentsMeet(sheets[i].freeRects[a].y,
                            sheets[i].freeRects[a].y + sheets[i].freeRects[a].h,
                            sheets[i].freeRects[b].y,
                            sheets[i].freeRects[b].y + sheets[i].freeRects[b].h)

(* ---- the fit scorer ---- *)
(* the score triple of a w x h placement in free rectangle r *)
ScoreTriple(r, w, h, heuristic) ==
  LET lw == r.w - w
      lh == r.h - h
      pos == r.y * sheetW + r.x
  IN IF heuristic = "bssf" THEN <<Min(lw, lh), Max(lw, lh), pos>>
     ELSE IF heuristic = "blsf" THEN <<Max(lw, lh), Min(lw, lh), pos>>
     ELSE <<lw * lh + lw + lh, Min(lw, lh), pos>>

LexLess(s, t) ==
  \/ s[1] < t[1]
  \/ s[1] = t[1] /\ s[2] < t[2]
  \/ s[1] = t[1] /\ s[2] = t[2] /\ s[3] < t[3]

(* the fitting candidates: a free rectangle with the placed width and height *)
Candidates(s, pw, ph) ==
  {c \in {<<s.freeRects[i], pw, ph>> : i \in 1..Len(s.freeRects)}
          \cup {<<s.freeRects[i], ph, pw>> : i \in {j \in 1..Len(s.freeRects) : pw # ph}} :
     c[2] <= c[1].w /\ c[3] <= c[1].h}

BestFitOk(s, pw, ph, heuristic) ==
  \E fit \in {findBestFit(s, pw, ph, heuristic)} :
    /\ fit.found <=> Candidates(s, pw, ph) # {}
    /\ fit.found =>
         /\ <<fit.rect, fit.w, fit.h>> \in Candidates(s, pw, ph)
         /\ <<fit.score.primary, fit.score.secondary, fit.score.positionScore>>
              = ScoreTriple(fit.rect, fit.w, fit.h, heuristic)
         /\ \A c \in Candidates(s, pw, ph) :
              ~LexLess(ScoreTriple(c[1], c[2], c[3], heuristic),
                       ScoreTriple(fit.rect, fit.w, fit.h, heuristic))

(* C14: for the piece a strategy run is about to place, on every open      *)
(* sheet and on a fresh sheet, findBestFit finds nothing exactly when no   *)
(* free rectangle takes the piece in either orientation (the rotated one   *)
(* counting only when pw # ph); otherwise what it returns is a fitting     *)
(* candidate whose triple (primary, secondary, positionScore), as defined  *)
(* for BSSF, BLSF and BAF, no fitting candidate undercuts.                 *)
C14_BestFitMinimal ==
  (pc = "run" /\ k <= Len(sorted)) =>
    /\ \A i \in 1..Len(sheets) :
         BestFitOk(sheets[i], sorted[k].width, sorted[k].height, heuristics[heurIdx])
    /\ BestFitOk(newSheet, sorted[k].width, sorted[k].height, heuristics[heurIdx])

(* a piece that one open sheet takes rotated, in a choice of candidates,   *)
(* and another open sheet does not take at all                             *)
C14_Witness ==
  /\ pc = "run"
  /\ k <= Len(sorted)
  /\ \E i, j \in 1..Len(sheets) :
       /\ findBestFit(sheets[i], sorted[k].width, sorted[k].height,
                      heuristics[heurIdx]).rotated
       /\ Cardinality(Candidates(sheets[i], sorted[k].width, sorted[k].height)) >= 2
       /\ ~findBestFit(sheets[j], sorted[k].width, sorted[k].height,
                       heuristics[heurIdx]).found

(* ---- the choice of the sheet ---- *)
FitTriple(s, piece, heuristic) ==
  LET fit == findBestFit(s, piece.width, piece.height, heuristic)
  IN <<fit.score.primary, fit.score.secondary, fit.score.positionScore>>

OffersFit(s, piece, heuristic) ==
  findBestFit(s, piece.width, piece.height, heuristic).found

(* the step put the piece on open sheet i and left the other sheets alone *)
PlacedOn(i, piece) ==
  /\ Len(sheets') = Len(sheets)
  /\ Len(sheets'[i].pieces) = Len(sheets[i].pieces) + 1
  /\ sheets'[i].pieces[Len(sheets'[i].pieces)].id = piece.id
  /\ \A j \in 1..Len(sheets) : j # i => sheets'[j] = sheets[j]

(* C15: in a strategy run a piece that passes the size check goes onto an  *)
(* open sheet whose best candidate no other open sheet's best candidate    *)
(* undercuts, whenever some open sheet offers a fit; the number of sheets  *)
(* grows only when no open sheet offers a fit in either orientation.       *)
C15_GlobalBestSheet ==
  [][(pc = "run" /\ k <= Len(sorted) /\ k' = k + 1
        /\ FitsRaw(sorted[k].width, sorted[k].height)) =>
       IF \E j \in 1..Len(sheets) : OffersFit(sheets[j], sorted[k], heuristics[heurIdx])
       THEN \E i \in 1..Len(sheets) :
              /\ OffersFit(sheets[i], sorted[k], heuristics[heurIdx])
              /\ PlacedOn(i, sorted[k])
              /\ \A j \in 1..Len(sheets) :
                   OffersFit(sheets[j], sorted[k], heuristics[heurIdx]) =>
                     ~LexLess(FitTriple(sheets[j], sorted[k], heuristics[heurIdx]),
                              FitTriple(sheets[i], sorted[k], heuristics[heurIdx]))
       ELSE \/ /\ Len(sheets') = Len(sheets) + 1
               /\ SubSeq(sheets', 1, Len(sheets)) = sheets
               /\ sheets'[Len(sheets')].pieces[1].id = sorted[k].id
            \/ /\ sheets' = sheets
               /\ Len(sheets) >= maxSheets
               /\ Len(unplaced') = Len(unplaced) + 1]_vars

(* the piece just placed went onto the second sheet although the first one *)
(* offers it a fit                                                         *)
C15_Witness ==
  /\ pc = "run"
  /\ k > 1
  /\ Len(sheets) = 2
  /\ Len(sheets[2].pieces) >= 2
  /\ sheets[2].pieces[Len(sheets[2].pieces)].id = sorted[k - 1].id
  /\ OffersFit(sheets[1], sorted[k - 1], heuristics[heurIdx])

(* ---- the end of consolidation ---- *)
FitsFreeRect(p, r) ==
  \/ (p.origW <= r.w /\ p.origH <= r.h)
  \/ (p.origH <= r.w /\ p.origW <= r.h)

(* C16: when packPieces returns two or more sheets, no piece on the last   *)
(* returned sheet fits, in either orientation, into any free rectangle of  *)
(* any other returned sheet.                                               *)
C16_ConsolidationFixpoint ==
  (Returned /\ Len(out.sheets) >= 2) =>
    \A a \in 1..Len(out.sheets[Len(out.sheets)].pieces) :
      \A i \in 1..(Len(out.sheets) - 1) :
        \A f \in 1..Len(out.sheets[i].freeRects) :
          ~FitsFreeRect(out.sheets[Len(out.sheets)].pieces[a], out.sheets[i].freeRects[f])

(* two sheets are returned after consolidation, the last one the sparser,  *)
(* the first one with free rectangles left and more than one piece         *)
C16_Witness ==
  /\ Returned
  /\ Len(out.sheets) = 2
  /\ out.sheets[2].usedArea < out.sheets[1].usedArea
  /\ Len(out.sheets[2].pieces) >= 1
  /\ Len(out.sheets[1].pieces) >= 2
  /\ Len(out.sheets[1].freeRects) >= 1

(* ---- the reported free area ---- *)
(* the unit cells of the sheet that some rectangle of the list covers *)
CoveredCells(rects) ==
  {c \in (0..(sheetW - 1)) \X (0..(sheetH - 1)) :
     \E i \in 1..Len(rects) :
       /\ rects[i].x <= c[1] /\ c[1] < rects[i].x + rects[i].w
       /\ rects[i].y <= c[2] /\ c[2] < rects[i].y + rects[i].h}

(* C17: the totalFreeArea reported for each returned sheet is the area of  *)
(* the union of the sheet's free rectangles, a region that several         *)
(* rectangles share being counted once.                                    *)
C17_TotalFreeArea ==
  Returned =>
    \A i \in 1..Len(out.sheets) :
      out.sheets[i].totalFreeArea = Cardinality(CoveredCells(out.sheets[i].freeRects))

(* ---- the consolidation hint ---- *)
HasHint(type, i) ==
  \E j \in 1..Len(out.suggestions) :
    out.suggestions[j].type = type /\ out.suggestions[j].sheet = i

(* the waste of a sheet, to one decimal, is above 30.0 percent *)
WasteOver30(s) ==
  LET area == sheetW * sheetH
      scaled == 1000 * (area - s.usedArea)
  IN (scaled \div area) + (IF 2 * (scaled % area) >= area THEN 1 ELSE 0) > 300

(* C18, as stated: a "consolidate" suggestion is given for every returned  *)
(* sheet that is not the last one and has waste above 30%, whatever its    *)
(* free-rectangle list holds, and for no other sheet.                      *)
C18_HintForEverySparseSheet ==
  Returned =>
    \A i \in 1..Len(out.sheets) :
      HasHint("consolidate", i) <=> (i < Len(out.sheets) /\ WasteOver30(out.sheets[i]))

(* C18, amended: a "consolidate" suggestion is given for every returned    *)
(* sheet that is not the last one, has waste above 30% and has a free      *)
(* rectangle left, and for no other sheet; a sheet without any free        *)
(* rectangle gets none.                                                    *)
C18_HintForSparseSheetWithGap ==
  Returned =>
    \A i \in 1..Len(out.sheets) :
      HasHint("consolidate", i) <=>
        /\ i < Len(out.sheets)
        /\ WasteOver30(out.sheets[i])
        /\ Len(out.sheets[i].freeRects) > 0

(* two sheets are returned: the first gets the hint, the last one, as      *)
(* sparse, does not                                                        *)
C18_Witness ==
  /\ Returned
  /\ Len(out.sheets) = 2
  /\ HasHint("consolidate", 1)
  /\ WasteOver30(out.sheets[2])
  /\ Len(out.sheets[2].freeRects) > 0

(* ---- piece conservation ---- *)
(* the places of piece id in the returned result: <<sheet, index>> on a    *)
(* sheet, <<0, index>> in the unplaced list                                *)
PlacesOf(id) ==
  {q \in UNION {{<<i, a>> : a \in 1..Len(out.sheets[i].pieces)} : i \in 1..Len(out.sheets)} :
     out.sheets[q[1]].pieces[q[2]].id = id}
  \cup {<<0, j>> : j \in {m \in 1..Len(out.unplaced) : out.unplaced[m].id = id}}

(* C19: in every returned result every input piece is there exactly once,  *)
(* as a placed piece of one sheet or as an entry of the unplaced list, and *)
(* nothing else is there.                                                  *)
C19_PieceConservation ==
  Returned =>
    /\ \A id \in 1..Len(pieces) : Cardinality(PlacesOf(id)) = 1
    /\ \A i \in 1..Len(out.sheets) :
         \A a \in 1..Len(out.sheets[i].pieces) :
           out.sheets[i].pieces[a].id \in 1..Len(pieces)
    /\ \A j \in 1..Len(out.unplaced) : out.unplaced[j].id \in 1..Len(pieces)

(* ---- the merge of two sheets ---- *)
(* of the two sheets of the best result, the one the descending stable     *)
(* sort puts first and the one it puts last                                *)
Denser ==
  IF bestResult.sheets[2].usedArea > bestResult.sheets[1].usedArea
  THEN bestResult.sheets[2] ELSE bestResult.sheets[1]

Sparser ==
  IF bestResult.sheets[2].usedArea > bestResult.sheets[1].usedArea
  THEN bestResult.sheets[1] ELSE bestResult.sheets[2]

FitsSheet(p, s) == \E f \in 1..Len(s.freeRects) : FitsFreeRect(p, s.freeRects[f])

(* a pass of the consolidator is about to start on two sheets, and every   *)
(* piece of the sparser sheet fits by itself a free rectangle of the       *)
(* denser sheet                                                            *)
MergePre ==
  /\ pc = "consolidate"
  /\ improved
  /\ Len(bestResult.sheets) = 2
  /\ \A a \in 1..Len(Sparser.pieces) : FitsSheet(Sparser.pieces[a], Denser)

AroundForty(s) ==
  /\ 10 * s.usedArea >= 3 * sheetW * sheetH
  /\ 10 * s.usedArea <= 5 * sheetW * sheetH

IdsOn(s) == {s.pieces[a].id : a \in 1..Len(s.pieces)}

(* one sheet is left and it holds every piece of the two sheets *)
MergedInto(after) ==
  /\ Len(after) = 1
  /\ IdsOn(after[1]) = IdsOn(Denser) \cup IdsOn(Sparser)
  /\ Len(after[1].pieces) = Len(Denser.pieces) + Len(Sparser.pieces)

(* C11 as stated: when two sheets, each between 30% and 50% used, enter a  *)
(* pass and every piece of the sparser sheet fits by itself a free         *)
(* rectangle of the denser sheet, the pass leaves exactly one sheet that   *)
(* holds all the pieces.                                                   *)
C11_MergeWhenEachFits ==
  [][(MergePre /\ AroundForty(Denser) /\ AroundForty(Sparser))
       => MergedInto(bestResult'.sheets)]_vars

(* C11: when two sheets enter a pass and every piece of the sparser sheet  *)
(* fits by itself a free rectangle of the denser sheet, the pass moves at  *)
(* least one piece; it leaves either one sheet that holds all the pieces,  *)
(* or two sheets of which the second holds no piece that still fits a      *)
(* free rectangle of the first.                                            *)
C11_MergeInTurn ==
  [][MergePre =>
       /\ moved' >= 1
       /\ \/ MergedInto(bestResult'.sheets)
          \/ /\ Len(bestResult'.sheets) = 2
             /\ \A a \in 1..Len(bestResult'.sheets[2].pieces) :
                  ~FitsSheet(bestResult'.sheets[2].pieces[a], bestResult'.sheets[1])]_vars

(* a pass has just merged the two sheets of the winning run into one *)
C11_Witness ==
  /\ pc = "consolidate"
  /\ moved >= 1
  /\ Len(bestResult.sheets) = 1
  /\ scores[bestIdx].sheetCount = 2
  /\ Len(bestResult.sheets[1].pieces) >= 2

(* ---- the bodies of the placed pieces ---- *)
BodiesMeet(p, q) ==
  /\ SegmentsMeet(p.x, p.x + p.w, q.x, q.x + q.w)
  /\ SegmentsMeet(p.y, p.y + p.h, q.y, q.y + q.h)

BodyInSheet(p) ==
  /\ 0 <= p.x /\ p.x + p.w <= sheetW
  /\ 0 <= p.y /\ p.y + p.h <= sheetH

BodiesApart(s) ==
  /\ \A a \in 1..Len(s.pieces) : BodyInSheet(s.pieces[a])
  /\ \A a, b \in 1..Len(s.pieces) :
       a # b => ~BodiesMeet(s.pieces[a], s.pieces[b])

(* C20: for any kerf >= 0, on every sheet of a strategy run, of the best   *)
(* result during consolidation and of the returned result, the bodies      *)
(* [x, x+w) x [y, y+h) of the placed pieces are pairwise disjoint and each *)
(* lies within [0, sheetW] x [0, sheetH].                                  *)
C20_BodiesDisjoint == EverySheet(BodiesApart)

(* with kerf, a consolidation pass has just moved a piece next to others *)
C20_Witness ==
  /\ kerf > 0
  /\ pc = "consolidate"
  /\ moved >= 1
  /\ \E i \in 1..Len(bestResult.sheets) : Len(bestResult.sheets[i].pieces) >= 3

(* ---- pieces turned away at the sheet cap ---- *)
TurnedAwayAtCap(unpl) ==
  \E j \in 1..Len(unpl) : unpl[j].reason = "No sheets remaining"

(* C21: when the best result, once selected, or the returned result has an *)
(* unplaced entry with reason 'No sheets remaining', it holds exactly      *)
(* maxSheets sheets: no consolidation pass frees a sheet slot while a      *)
(* piece stays unplaced for lack of sheets.                                *)
C21_CapUnplacedFullSheets ==
  /\ (pc \in {"consolidate", "output", "done"} /\ TurnedAwayAtCap(bestResult.unplaced))
       => Len(bestResult.sheets) = maxSheets
  /\ (Returned /\ TurnedAwayAtCap(out.unplaced)) => Len(out.sheets) = maxSheets

====
